---- MODULE Spec2Model ----
(***************************************************************************)
(* A model of app.py: payload recovery (fetch_raw_json,                    *)
(* extract_json_from_html_wrapper), the field extractor                     *)
(* (parse_html_field), the record normalizer (process_data), the section    *)
(* grouper (group_by_section), the document assembler (create_docx,         *)
(* fetch_image_bytes) and the request handlers that call them.              *)
(***************************************************************************)
EXTENDS Integers, Sequences, FiniteSets, TLC

VARIABLES
    \* ---- payload recovery (fetch_raw_json / extract_json_from_html_wrapper)
    content,    \* the raw text read from the file or the response
    rpc,        \* position in the recovery: start, direct_failed, body_failed, returned, raised
    attempts,   \* the parses tried so far, in order: 1 direct, 2 body region, 3 quotes fixed
    tree,       \* the value json.loads returned (NoValue before)
    exc,        \* the exception that propagates: a chain, head first, then its __context__
    \* ---- one request to the application
    pc,         \* idle, assembling, done
    req,        \* the route and its URL parameters
    payload,    \* what fetch_raw_json gives this request: a failure or a JSON tree
    normalized, \* what process_data returned (or that it raised)
    cleaned,    \* the handler's record list after its filters
    sections,   \* what group_by_section returned
    page,       \* what a page handler hands to its template
    docx_arg,   \* the list create_docx was called with (NotCalled before)
    pos,        \* create_docx: the next instruction of its traversal
    doc,        \* create_docx: the blocks added to the document so far
    response    \* the response of the request

rvars == <<content, rpc, attempts, tree, exc>>

pvars == <<pc, req, payload, normalized, cleaned, sections, page, docx_arg, pos, doc, response>>

vars == <<content, rpc, attempts, tree, exc,
          pc, req, payload, normalized, cleaned, sections, page, docx_arg, pos, doc, response>>

(***************************************************************************)
(* Bounds of the model.                                                    *)
(***************************************************************************)
MaxContentLen == 4

(***************************************************************************)
(* Text is a sequence of characters.  The characters that matter to the    *)
(* recovery are the double quote, the backslash, a letter, white space,    *)
(* and three units the code treats as a whole: the entity &quot; and the   *)
(* tags <body> and </body>.                                                *)
(***************************************************************************)
QUOTE == "\""
BSLASH == "\\"
LETTER == "a"
SPACE == " "
ENTITY == "&quot;"
OPENBODY == "<body>"
CLOSEBODY == "</body>"

Alphabet == {QUOTE, BSLASH, LETTER, SPACE, ENTITY, OPENBODY, CLOSEBODY}

RECURSIVE SeqsUpTo(_, _)
SeqsUpTo(S, n) ==
    IF n = 0 THEN {<<>>}
    ELSE LET shorter == SeqsUpTo(S, n - 1)
         IN  shorter \cup {Append(s, x) : s \in {t \in shorter : Len(t) = n - 1}, x \in S}

Contents == SeqsUpTo(Alphabet, MaxContentLen)

NoValue == <<"no value">>

NEWLINE == "\n"
IsSpace(c) == c \in {SPACE, NEWLINE}

\* str.strip(): leading and trailing white space removed.
RECURSIVE LStrip(_)
LStrip(s) == IF s # <<>> /\ IsSpace(Head(s)) THEN LStrip(Tail(s)) ELSE s

RECURSIVE RStrip(_)
RStrip(s) ==
    IF s # <<>> /\ IsSpace(s[Len(s)]) THEN RStrip(SubSeq(s, 1, Len(s) - 1)) ELSE s

Strip(s) == RStrip(LStrip(s))

(***************************************************************************)
(* json.loads on this alphabet: white space, one string literal, white     *)
(* space.  Inside the literal a backslash escapes a quote or a backslash;  *)
(* any other escape, a bare quote, or an unterminated literal is a parse   *)
(* failure, and so is anything but white space after the closing quote.    *)
(* The value is the literal's decoded characters.                          *)
(***************************************************************************)
RECURSIVE ScanString(_, _, _)
ScanString(s, i, acc) ==
    IF i > Len(s) THEN [ok |-> FALSE, value |-> NoValue, next |-> i]
    ELSE IF s[i] = QUOTE THEN [ok |-> TRUE, value |-> acc, next |-> i + 1]
    ELSE IF s[i] = BSLASH
         THEN IF i + 1 <= Len(s) /\ s[i + 1] \in {QUOTE, BSLASH}
              THEN ScanString(s, i + 2, Append(acc, s[i + 1]))
              ELSE [ok |-> FALSE, value |-> NoValue, next |-> i]
    ELSE ScanString(s, i + 1, Append(acc, s[i]))

JsonLoads(s) ==
    LET t == LStrip(s)
    IN  IF t = <<>> \/ Head(t) # QUOTE
        THEN [ok |-> FALSE, value |-> NoValue]
        ELSE LET r == ScanString(t, 2, <<>>)
             IN  IF r.ok /\ Strip(SubSeq(t, r.next, Len(t))) = <<>>
                 THEN [ok |-> TRUE, value |-> r.value]
                 ELSE [ok |-> FALSE, value |-> NoValue]

(***************************************************************************)
(* The re.search of line 55 (body tag, greedy group, closing tag; DOTALL    *)
(* and IGNORECASE): the leftmost opening tag and, the group being greedy,  *)
(* the last closing tag after it.                                          *)
(***************************************************************************)
OpenAt(s) == {i \in 1..Len(s) : s[i] = OPENBODY}
CloseAfter(s, i) == {j \in (i + 1)..Len(s) : s[j] = CLOSEBODY}

Min(S) == CHOOSE x \in S : \A y \in S : x <= y
Max(S) == CHOOSE x \in S : \A y \in S : x >= y

HasBody(s) == OpenAt(s) # {} /\ CloseAfter(s, Min(OpenAt(s))) # {}

BodyGroup(s) ==
    LET i == Min(OpenAt(s))
        j == Max(CloseAfter(s, i))
    IN  SubSeq(s, i + 1, j - 1)

\* html.unescape: the entity becomes the character it names.
RECURSIVE Unescape(_)
Unescape(s) ==
    IF s = <<>> THEN <<>>
    ELSE <<IF Head(s) = ENTITY THEN QUOTE ELSE Head(s)>> \o Unescape(Tail(s))

\* str.replace('\\"', '"'): every backslash-quote pair, left to right.
RECURSIVE ReplaceEscapedQuotes(_)
ReplaceEscapedQuotes(s) ==
    IF s = <<>> THEN <<>>
    ELSE IF Len(s) >= 2 /\ s[1] = BSLASH /\ s[2] = QUOTE
         THEN <<QUOTE>> \o ReplaceEscapedQuotes(SubSeq(s, 3, Len(s)))
         ELSE <<Head(s)>> \o ReplaceEscapedQuotes(Tail(s))

\* Lines 55-56 alone: the region with its entities left encoded.
InnerNoUnescape(html_content) ==
    IF HasBody(html_content) THEN Strip(BodyGroup(html_content)) ELSE Strip(html_content)

\* Lines 55-57: the text the second parse is given.
Inner(html_content) ==
    Unescape(IF HasBody(html_content)
             THEN Strip(BodyGroup(html_content))
             ELSE Strip(html_content))

\* Line 61: the text the third parse is given.
Fixed(inner) == ReplaceEscapedQuotes(inner)

(***************************************************************************)
(* A parse failure is the JSONDecodeError of one json.loads call: which    *)
(* parse it was and the text it was given.  An exception raised while      *)
(* another is being handled has that one as its __context__; a chain is    *)
(* written head first.                                                     *)
(***************************************************************************)
Failure(k, text) == [strategy |-> k, text |-> text]

RaiseWhileHandling(failure, handled) == <<failure>> \o handled

NoRequest == [route |-> "none", lang |-> "", sid |-> "", series |-> ""]
NoPayload == [given |-> FALSE, fails |-> FALSE, tree |-> [data |-> [kind |-> "absent", items |-> <<>>]]]
NotNormalized == [called |-> FALSE, raised |-> FALSE, cleaned |-> <<>>]
NotCalled == [called |-> FALSE, entries |-> <<>>]
NoResponse == [status |-> 0, body |-> "none"]

Idle ==
    /\ pc = "idle"
    /\ req = NoRequest
    /\ payload = NoPayload
    /\ normalized = NotNormalized
    /\ cleaned = <<>>
    /\ sections = <<>>
    /\ page = <<>>
    /\ docx_arg = NotCalled
    /\ pos = 0
    /\ doc = <<>>
    /\ response = NoResponse

RecoveryInit ==
    /\ Idle
    /\ content \in Contents
    /\ rpc = "start"
    /\ attempts = <<>>
    /\ tree = NoValue
    /\ exc = <<>>

\* fetch_raw_json lines 42-45 (fetch_json_from_url lines 32-34): the direct parse.
DirectParse ==
    /\ rpc = "start"
    /\ attempts' = Append(attempts, 1)
    /\ LET r == JsonLoads(content)
       IN  IF r.ok
           THEN /\ rpc' = "returned"
                /\ tree' = r.value
                /\ exc' = exc
           ELSE /\ rpc' = "direct_failed"
                /\ tree' = tree
                /\ exc' = <<Failure(1, content)>>
    /\ UNCHANGED <<content, pvars>>

\* Lines 46 and 55-59: the handler of the first failure parses the body region.
ParseBodyRegion ==
    /\ rpc = "direct_failed"
    /\ attempts' = Append(attempts, 2)
    /\ LET inner == Inner(content)
           r == JsonLoads(inner)
       IN  IF r.ok
           THEN /\ rpc' = "returned"
                /\ tree' = r.value
                /\ exc' = <<>>
           ELSE /\ rpc' = "body_failed"
                /\ tree' = tree
                /\ exc' = RaiseWhileHandling(Failure(2, inner), exc)
    /\ UNCHANGED <<content, pvars>>

\* Lines 60-62: the handler of the second failure parses the text with its
\* escaped quotes replaced; its failure propagates to the caller.
ParseFixed ==
    /\ rpc = "body_failed"
    /\ attempts' = Append(attempts, 3)
    /\ LET fixed == Fixed(Inner(content))
           r == JsonLoads(fixed)
       IN  IF r.ok
           THEN /\ rpc' = "returned"
                /\ tree' = r.value
                /\ exc' = <<>>
           ELSE /\ rpc' = "raised"
                /\ tree' = tree
                /\ exc' = RaiseWhileHandling(Failure(3, fixed), exc)
    /\ UNCHANGED <<content, pvars>>

RecoveryNext == DirectParse \/ ParseBodyRegion \/ ParseFixed

SpecRecovery == RecoveryInit /\ [][RecoveryNext]_vars

(***************************************************************************)
(* JSON values of the payload.  A key of an object is absent, or holds     *)
(* null, a number or a string.                                             *)
(***************************************************************************)
Absent == [kind |-> "absent", i |-> 0, s |-> ""]
Null == [kind |-> "null", i |-> 0, s |-> ""]
Num(n) == [kind |-> "int", i |-> n, s |-> ""]
Str(t) == [kind |-> "str", i |-> 0, s |-> t]

\* dict.get(key): None for a key that is absent.
DictGet(v) == IF v.kind = "absent" THEN Null ELSE v

\* Python's truth value of None, a number, a string.
Truthy(v) ==
    CASE v.kind = "int" -> v.i # 0
      [] v.kind = "str" -> v.s # ""
      [] OTHER -> FALSE

\* a or b
PyOr(a, b) == IF Truthy(a) THEN a ELSE b

\* The decimal text of the small integers of the model.
IntText(n) ==
    CASE n = -1 -> "-1" [] n = 0 -> "0" [] n = 1 -> "1" [] n = 2 -> "2"
      [] n = 3 -> "3" [] n = 4 -> "4" [] n = 5 -> "5" [] n = 6 -> "6"
      [] n = 7 -> "7" [] OTHER -> "8"

\* str(v)
PyStr(v) ==
    CASE v.kind = "int" -> IntText(v.i)
      [] v.kind = "str" -> v.s
      [] OTHER -> "None"

\* int(s) of a string: a decimal literal, white space around it allowed;
\* anything else raises ValueError.
PyInt(s) ==
    CASE s = "-1" -> [ok |-> TRUE, value |-> -1]
      [] s = "0" -> [ok |-> TRUE, value |-> 0]
      [] s = "1" -> [ok |-> TRUE, value |-> 1]
      [] s \in {"2", " 2 "} -> [ok |-> TRUE, value |-> 2]
      [] s = "3" -> [ok |-> TRUE, value |-> 3]
      [] s = "4" -> [ok |-> TRUE, value |-> 4]
      [] s = "5" -> [ok |-> TRUE, value |-> 5]
      [] s = "6" -> [ok |-> TRUE, value |-> 6]
      [] OTHER -> [ok |-> FALSE, value |-> 0]

(***************************************************************************)
(* parse_html_field.  BeautifulSoup's parse of the fragments of the model  *)
(* is given as the nodes it yields, in document order: text nodes and img  *)
(* elements (src "" for an img without one).                               *)
(***************************************************************************)
Text(chars) == [tag |-> "text", text |-> chars, src |-> ""]
Img(src) == [tag |-> "img", text |-> <<>>, src |-> src]

Soup(s) ==
    CASE s = "Q1" -> <<Text(<<"Q", "1">>)>>
      [] s = "prashn" -> <<Text(<<"p", "r">>)>>
      [] s = "A" -> <<Text(<<"A">>)>>
      [] s = "B" -> <<Text(<<"B">>)>>
      [] s = "C" -> <<Text(<<"C">>)>>
      [] s = "D" -> <<Text(<<"D">>)>>
      [] s = "E" -> <<Text(<<"E">>)>>
      [] s = "<p></p>" -> <<>>
      [] s = "<p> </p>" -> <<Text(<<SPACE>>)>>
      [] s = "<p>A &amp; B<img src='/x.png'></p>"
            -> <<Text(<<"A", SPACE, "&", SPACE, "B">>), Img("/x.png")>>
      [] s = "<img src='//cdn.example.com/y.png'>" -> <<Img("//cdn.example.com/y.png")>>
      [] s = "<img src='https://other.com/z.png'>S" -> <<Img("https://other.com/z.png"), Text(<<"S">>)>>
      [] s = "<img alt='z'>" -> <<Img("")>>
      [] s = "<b>x</b> <i>y</i>" -> <<Text(<<"x">>), Text(<<SPACE>>), Text(<<"y">>)>>
      [] s = " x\n y " -> <<Text(<<SPACE, "x", NEWLINE, SPACE, "y", SPACE>>)>>
      [] s = "uttar" -> <<Text(<<"u">>)>>
      [] s = "abc" -> <<Text(<<"a", "b", "c">>)>>
      [] s = "0" -> <<Text(<<"0">>)>>
      [] s = "1" -> <<Text(<<"1">>)>>
      [] s = "2" -> <<Text(<<"2">>)>>
      [] s = " 2 " -> <<Text(<<SPACE, "2", SPACE>>)>>
      [] s = "2.0" -> <<Text(<<"2", ".", "0">>)>>
      [] s = "3" -> <<Text(<<"3">>)>>
      [] s = "4" -> <<Text(<<"4">>)>>
      [] s = "5" -> <<Text(<<"5">>)>>
      [] s = "6" -> <<Text(<<"6">>)>>
      [] s = "-1" -> <<Text(<<"-", "1">>)>>
      [] OTHER -> <<>>

\* soup.get_text(separator=' ', strip=True): every text node stripped, the
\* empty ones dropped, the rest joined by one space.
RECURSIVE GetText(_)
GetText(nodes) ==
    IF nodes = <<>> THEN <<>>
    ELSE LET piece == IF Head(nodes).tag = "text" THEN Strip(Head(nodes).text) ELSE <<>>
             rest == GetText(Tail(nodes))
         IN  IF piece = <<>> THEN rest
             ELSE IF rest = <<>> THEN piece
             ELSE piece \o <<SPACE>> \o rest

\* re.sub(r'\s+', ' ', text): every run of white space becomes one space.
RECURSIVE CollapseSpaces(_)
CollapseSpaces(t) ==
    IF t = <<>> THEN <<>>
    ELSE IF IsSpace(Head(t))
         THEN <<SPACE>> \o CollapseSpaces(LStrip(t))
         ELSE <<Head(t)>> \o CollapseSpaces(Tail(t))

\* Lines 72-75: the src of every img that has one, in document order.
RECURSIVE ImageSources(_)
ImageSources(nodes) ==
    IF nodes = <<>> THEN <<>>
    ELSE (IF Head(nodes).tag = "img" /\ Head(nodes).src # "" THEN <<Head(nodes).src>> ELSE <<>>)
         \o ImageSources(Tail(nodes))

parse_html_field(s) ==
    IF ~Truthy(s) THEN [text |-> <<>>, images |-> <<>>]
    ELSE LET soup == Soup(s.s)
         IN  [text |-> Strip(CollapseSpaces(GetText(soup))), images |-> ImageSources(soup)]

(***************************************************************************)
(* process_data.  A question object holds, per language, its question, its *)
(* five option slots, its answer and its solution; q.option[lang][i] is    *)
(* the key option_{lang}_{i}.                                              *)
(***************************************************************************)
NumOptionSlots == 5

labels == <<"a", "b", "c", "d", "e">>

\* Lines 92-99: the populated option slots, in slot order.
RECURSIVE OptionsFrom(_, _, _)
OptionsFrom(q, lang, i) ==
    IF i > NumOptionSlots THEN <<>>
    ELSE LET opt_html == DictGet(q.option[lang][i])
             f == parse_html_field(opt_html)
         IN  (IF Truthy(opt_html) /\ (f.text # <<>> \/ f.images # <<>>)
              THEN <<[text |-> f.text, images |-> f.images]>>
              ELSE <<>>) \o OptionsFrom(q, lang, i + 1)

\* The range test against the number of slots instead of the retained options.
InRangeUpToSlots(i0, options) == 1 <= i0 /\ i0 <= NumOptionSlots

\* Line 106: the 1-based answer names one of the retained options.
InRange(i0, options) == 1 <= i0 /\ i0 <= Len(options)

\* Line 107.
AnswerIndex(i0) == i0 - 1

\* The fallback without the answer of the export language.
FallbackHtmlEnglishOnly(q, lang, ar) == ar

\* Lines 111 and 114: the fragment the answer text falls back to.
FallbackHtml(q, lang, ar) == PyOr(DictGet(q.answer[lang]), ar)

\* Lines 100-115.
ResolveAnswer(q, lang, options) ==
    LET ar == DictGet(q.answer["en"])
        i0 == PyInt(ar.s)
    IN  IF ~Truthy(ar) THEN [index |-> Null, text |-> <<>>]
        ELSE IF i0.ok /\ InRange(i0.value, options)
             THEN LET ans_idx == AnswerIndex(i0.value)
                  IN  [index |-> Num(ans_idx),
                       text |-> IF ans_idx < Len(labels)
                                THEN <<labels[ans_idx + 1]>>
                                ELSE <<IntText(i0.value)>>]
             ELSE [index |-> Null, text |-> parse_html_field(FallbackHtml(q, lang, ar)).text]

\* Lines 87-132: the record of one question.
Entry(sec_id, sec_name, q, lang) ==
    LET question == parse_html_field(PyOr(DictGet(q.question[lang]), Str("")))
        options == OptionsFrom(q, lang, 1)
        answer == ResolveAnswer(q, lang, options)
        solution == parse_html_field(PyOr(DictGet(q.solution[lang]), Str("")))
    IN  [qid |-> DictGet(q.qid),
         section_id |-> sec_id,
         section_name |-> sec_name,
         topic_id |-> DictGet(q.topic_id),
         question_text |-> question.text,
         question_images |-> question.images,
         options |-> options,
         answer_index |-> answer.index,
         answer_text |-> answer.text,
         solution_text |-> solution.text,
         solution_images |-> solution.images]

Raised == [called |-> TRUE, raised |-> TRUE, cleaned |-> <<>>]
Returned(entries) == [called |-> TRUE, raised |-> FALSE, cleaned |-> entries]

\* A result followed by a later one: an exception ends the traversal.
Then(first, second) ==
    IF first.raised \/ second.raised THEN Raised
    ELSE Returned(first.cleaned \o second.cleaned)

\* Line 86: for q in q_list.  A list that is null cannot be iterated.
RECURSIVE EntriesOfList(_, _, _, _)
EntriesOfList(sec_id, sec_name, qs, lang) ==
    IF qs = <<>> THEN <<>>
    ELSE <<Entry(sec_id, sec_name, Head(qs), lang)>>
         \o EntriesOfList(sec_id, sec_name, Tail(qs), lang)

\* Line 85: for q_list in section_entry.get('all_questions', {}).values().
RECURSIVE EntriesOfTopics(_, _, _, _)
EntriesOfTopics(sec_id, sec_name, topics, lang) ==
    IF topics = <<>> THEN Returned(<<>>)
    ELSE IF Head(topics).kind = "null" THEN Raised
    ELSE Then(Returned(EntriesOfList(sec_id, sec_name, Head(topics).items, lang)),
              EntriesOfTopics(sec_id, sec_name, Tail(topics), lang))

\* Line 83.
SectionId(section_entry) ==
    PyOr(DictGet(section_entry.section_id), DictGet(section_entry.sec_id))

\* Line 84.
SectionName(section_entry) ==
    PyOr(PyOr(DictGet(section_entry.section_name), DictGet(section_entry.sec_name)),
         Str(PyStr(SectionId(section_entry))))

\* Lines 83-132: one section entry.  The default {} stands in only for a key
\* that is absent; null has no values().
EntriesOfSection(section_entry, lang) ==
    LET aq == section_entry.all_questions
    IN  IF aq.kind = "absent" THEN Returned(<<>>)
        ELSE IF aq.kind = "null" THEN Raised
        ELSE EntriesOfTopics(SectionId(section_entry), SectionName(section_entry),
                             aq.topics, lang)

RECURSIVE EntriesOfSections(_, _)
EntriesOfSections(entries, lang) ==
    IF entries = <<>> THEN Returned(<<>>)
    ELSE LET first == EntriesOfSection(Head(entries), lang)
         IN  IF first.raised THEN Raised
             ELSE Then(first, EntriesOfSections(Tail(entries), lang))

\* Lines 79-133.  The default [] stands in only for a key that is absent;
\* null cannot be iterated.
process_data(raw_json, lang) ==
    IF raw_json.data.kind = "absent" THEN Returned(<<>>)
    ELSE IF raw_json.data.kind = "null" THEN Raised
    ELSE EntriesOfSections(raw_json.data.items, lang)

(***************************************************************************)
(* group_by_section: a dict in insertion order, written as the sequence of *)
(* its items.                                                              *)
(***************************************************************************)
KeyIndex(groups, sid) ==
    IF \E k \in 1..Len(groups) : groups[k].key = sid
    THEN CHOOSE k \in 1..Len(groups) : groups[k].key = sid
    ELSE 0

\* Line 139.
GroupKey(entry) == PyOr(entry.section_id, Str(""))

RECURSIVE GroupInto(_, _)
GroupInto(groups, entries) ==
    IF entries = <<>> THEN groups
    ELSE LET entry == Head(entries)
             sid == GroupKey(entry)
             sname == PyOr(entry.section_name, Str(PyStr(sid)))
             k == KeyIndex(groups, sid)
         IN  IF k = 0
             THEN GroupInto(Append(groups, [key |-> sid, name |-> sname,
                                            questions |-> <<entry>>]),
                            Tail(entries))
             ELSE GroupInto([groups EXCEPT ![k].questions = Append(@, entry)],
                            Tail(entries))

group_by_section(entries) == GroupInto(<<>>, entries)

(***************************************************************************)
(* create_docx and fetch_image_bytes.  The traversal of create_docx is the *)
(* sequence of its document-writer calls: a paragraph, the fetch of an     *)
(* image and its add_picture, a page break.                                *)
(***************************************************************************)
Para(tag, label, text) == [op |-> "para", tag |-> tag, label |-> label, text |-> text, url |-> ""]
Image(url) == [op |-> "image", tag |-> "", label |-> "", text |-> <<>>, url |-> url]
PageBreak == [op |-> "break", tag |-> "", label |-> "", text |-> <<>>, url |-> ""]

RECURSIVE Images(_)
Images(urls) == IF urls = <<>> THEN <<>> ELSE <<Image(Head(urls))>> \o Images(Tail(urls))

\* Line 161: the label of the option at position idx (0-based) of the list.
OptionLabel(idx) == IF idx < Len(labels) THEN labels[idx + 1] ELSE IntText(idx + 1)

\* Lines 159-166.
RECURSIVE OptionBlocks(_, _)
OptionBlocks(options, idx) ==
    IF idx >= Len(options) THEN <<>>
    ELSE <<Para("OPT", OptionLabel(idx), options[idx + 1].text)>>
         \o Images(options[idx + 1].images)
         \o OptionBlocks(options, idx + 1)

\* Lines 152-175: the calls made for one record.
EntryBlocks(entry) ==
    <<Para("Q", "", entry.question_text)>>
    \o Images(entry.question_images)
    \o OptionBlocks(entry.options, 0)
    \o <<Para("ANS", "", entry.answer_text), Para("SOL", "", entry.solution_text)>>
    \o Images(entry.solution_images)
    \o <<PageBreak>>

\* Line 151: for entry in cleaned_entries.
RECURSIVE Traversal(_)
Traversal(entries) ==
    IF entries = <<>> THEN <<>> ELSE EntryBlocks(Head(entries)) \o Traversal(Tail(entries))

BASE_URL == "https://www.testranking.in"

\* Lines 185-189: the URL that is fetched.
ResolveUrl(img_url, base_url) ==
    CASE img_url = "//cdn.example.com/y.png" -> "https://cdn.example.com/y.png"
      [] img_url = "/x.png" /\ base_url = BASE_URL -> "https://www.testranking.in/x.png"
      [] OTHER -> img_url

\* What one GET of an image can bring.
ImageOutcomes == {"image", "not_image", "empty_body", "http_error", "timeout", "network_error"}

\* Lines 192-197: the bytes of the response, or None for any exception of
\* the request or of raise_for_status.
fetch_image_bytes(outcome) ==
    CASE outcome = "image" -> "image bytes"
      [] outcome = "not_image" -> "other bytes"
      [] outcome = "empty_body" -> ""
      [] OTHER -> "None"

\* Lines 156, 165, 173: if img_data.
HasData(img_data) == img_data \notin {"None", ""}

\* doc.add_picture reads the bytes as an image and raises on bytes that are not one.
AddPictureRaises(img_data) == img_data # "image bytes"

Respond(status, body) == [status |-> status, body |-> body]

\* The index of the first image fetch at or after position p (past the end if none).
RECURSIVE NextFetch(_, _)
NextFetch(plan, p) ==
    IF p > Len(plan) \/ plan[p].op = "image" THEN p ELSE NextFetch(plan, p + 1)

\* create_docx runs from one image fetch to the next.
EmitBlocks ==
    /\ pc = "assembling"
    /\ LET plan == Traversal(docx_arg.entries)
       IN  /\ pos <= Len(plan)
           /\ plan[pos].op # "image"
           /\ pos' = NextFetch(plan, pos)
           /\ doc' = doc \o SubSeq(plan, pos, NextFetch(plan, pos) - 1)
    /\ UNCHANGED <<pc, req, payload, normalized, cleaned, sections, page, docx_arg, response, rvars>>

\* Lines 155-157 (164-166, 172-174): one image is fetched and, if there is
\* data, added.  An exception of add_picture is caught nowhere: it leaves
\* create_docx and the handler, and the request ends in the server's error response.
FetchImage ==
    /\ pc = "assembling"
    /\ LET plan == Traversal(docx_arg.entries)
       IN  /\ pos <= Len(plan)
           /\ plan[pos].op = "image"
           /\ \E outcome \in ImageOutcomes :
                LET img_data == fetch_image_bytes(outcome)
                IN  IF ~HasData(img_data)
                    THEN /\ pos' = pos + 1
                         /\ UNCHANGED <<pc, doc, response>>
                    ELSE IF AddPictureRaises(img_data)
                    THEN /\ pc' = "done"
                         /\ response' = Respond(500, "unhandled exception")
                         /\ UNCHANGED <<pos, doc>>
                    ELSE /\ pos' = pos + 1
                         /\ doc' = Append(doc, Image(ResolveUrl(plan[pos].url, BASE_URL)))
                         /\ UNCHANGED <<pc, response>>
    /\ UNCHANGED <<req, payload, normalized, cleaned, sections, page, docx_arg, rvars>>

\* Lines 176-179 and 316-317 (340-341): the document is saved and sent.
SendFile ==
    /\ pc = "assembling"
    /\ pos > Len(Traversal(docx_arg.entries))
    /\ pc' = "done"
    /\ response' = Respond(200, "docx")
    /\ UNCHANGED <<req, payload, normalized, cleaned, sections, page, docx_arg, pos, doc, rvars>>

(***************************************************************************)
(* The request handlers.                                                   *)
(***************************************************************************)
\* Lines 308 and 331: the records kept for Hindi.
RECURSIVE WithQuestion(_)
WithQuestion(entries) ==
    IF entries = <<>> THEN <<>>
    ELSE (IF Head(entries).question_text # <<>> \/ Head(entries).question_images # <<>>
          THEN <<Head(entries)>> ELSE <<>>) \o WithQuestion(Tail(entries))

LanguageFilter(entries, lang) == IF lang = "hi" THEN WithQuestion(entries) ELSE entries

\* Line 332: the records of the section named in the URL.
RECURSIVE SectionFilter(_, _)
SectionFilter(entries, sid) ==
    IF entries = <<>> THEN <<>>
    ELSE (IF PyStr(Head(entries).section_id) = sid THEN <<Head(entries)>> ELSE <<>>)
         \o SectionFilter(Tail(entries), sid)

\* The filters of the two export routes (lines 307-308, lines 330-332).
Filtered(request, entries) ==
    IF request.route = "download_section"
    THEN SectionFilter(LanguageFilter(entries, request.lang), request.sid)
    ELSE LanguageFilter(entries, request.lang)

\* The handler without its test for an empty list.
NoContentNever(entries) == FALSE

\* Lines 309 and 333: if not cleaned.
NoContent(entries) == entries = <<>>

\* Lines 298-315 and 321-339: the body the two export handlers share.
Export(request, pl) ==
    /\ pc = "idle"
    /\ req' = request
    /\ payload' = pl
    /\ UNCHANGED <<sections, page, doc, rvars>>
    /\ IF request.lang \notin {"en", "hi"}
       THEN /\ response' = Respond(400, "Invalid language")
            /\ pc' = "done"
            /\ UNCHANGED <<normalized, cleaned, docx_arg, pos>>
       ELSE IF pl.fails
       THEN /\ response' = Respond(500, "Error")
            /\ pc' = "done"
            /\ UNCHANGED <<normalized, cleaned, docx_arg, pos>>
       ELSE LET n == process_data(pl.tree, request.lang)
            IN  /\ normalized' = n
                /\ IF n.raised
                   THEN /\ response' = Respond(500, "unhandled exception")
                        /\ pc' = "done"
                        /\ UNCHANGED <<cleaned, docx_arg, pos>>
                   ELSE /\ cleaned' = Filtered(request, n.cleaned)
                        /\ IF NoContent(Filtered(request, n.cleaned))
                           THEN /\ response' = Respond(404, "No questions found")
                                /\ pc' = "done"
                                /\ UNCHANGED <<docx_arg, pos>>
                           ELSE /\ docx_arg' = [called |-> TRUE, entries |-> Filtered(request, n.cleaned)]
                                /\ pos' = 1
                                /\ pc' = "assembling"
                                /\ UNCHANGED response

Payload(fails, t) == [given |-> TRUE, fails |-> fails, tree |-> t]
Request(route, lang, sid, series) == [route |-> route, lang |-> lang, sid |-> sid, series |-> series]

\* Lines 296-315.
download_full(lang, pl) ==
    Export(Request("download_full", lang, "", ""), pl)

\* Lines 319-339.
download_section(sid, lang, pl) ==
    Export(Request("download_section", lang, sid, ""), pl)

\* Lines 343-364.
view_section(sid, pl) ==
    /\ pc = "idle"
    /\ req' = Request("view_section", "", sid, "")
    /\ payload' = pl
    /\ pc' = "done"
    /\ UNCHANGED <<cleaned, docx_arg, pos, doc, rvars>>
    /\ IF pl.fails
       THEN /\ response' = Respond(500, "Error")
            /\ UNCHANGED <<normalized, sections, page>>
       ELSE LET n == process_data(pl.tree, "en")
                groups == group_by_section(n.cleaned)
                k == KeyIndex(groups, Str(sid))
            IN  /\ normalized' = n
                /\ IF n.raised
                   THEN /\ response' = Respond(500, "unhandled exception")
                        /\ UNCHANGED <<sections, page>>
                   ELSE /\ sections' = groups
                        /\ IF k = 0
                           THEN /\ response' = Respond(404, "Section not found")
                                /\ UNCHANGED page
                           ELSE /\ response' = Respond(200, "page")
                                /\ page' = <<groups[k]>>

\* Lines 273-280: the text the template writes for each key, one link group per section.
RECURSIVE SectionLinks(_)
SectionLinks(groups) ==
    IF groups = <<>> THEN <<>>
    ELSE <<[sid |-> PyStr(Head(groups).key), name |-> Head(groups).name]>>
         \o SectionLinks(Tail(groups))

\* Lines 245-286.  series says what the fetch of the series list brought.
series_page(series, pl) ==
    /\ pc = "idle"
    /\ req' = Request("series_page", "", "", series)
    /\ payload' = pl
    /\ pc' = "done"
    /\ UNCHANGED <<cleaned, docx_arg, pos, doc, rvars>>
    /\ IF series = "fetch_error"
       THEN /\ response' = Respond(500, "Error")
            /\ UNCHANGED <<normalized, sections, page>>
       ELSE IF series = "not_listed"
       THEN /\ response' = Respond(404, "Series not found")
            /\ UNCHANGED <<normalized, sections, page>>
       ELSE IF pl.fails
       THEN /\ response' = Respond(500, "Error fetching questions")
            /\ UNCHANGED <<normalized, sections, page>>
       ELSE LET n == process_data(pl.tree, "en")
            IN  /\ normalized' = n
                /\ IF n.raised
                   THEN /\ response' = Respond(500, "unhandled exception")
                        /\ UNCHANGED <<sections, page>>
                   ELSE /\ sections' = group_by_section(n.cleaned)
                        /\ page' = SectionLinks(group_by_section(n.cleaned))
                        /\ response' = Respond(200, "page")

(***************************************************************************)
(* The payloads and requests of the model.  Four families of JSON trees,   *)
(* each varying one part of the payload: the options and the answer of one *)
(* question; absent and null parts of the structure; the identifiers of    *)
(* the sections; the images and the languages of the questions.            *)
(***************************************************************************)
MaxTopics == 2
MaxListLen == 1
MaxIdSections == 3
MaxSections == 2

ByLang(lang, mine, other) ==
    IF lang = "en" THEN [en |-> mine, hi |-> other] ELSE [en |-> other, hi |-> mine]

Question(qid, question, option, answer, solution) ==
    [qid |-> qid, topic_id |-> Absent, question |-> question, option |-> option,
     answer |-> answer, solution |-> solution]

List(qs) == [kind |-> "list", items |-> qs]
NullList == [kind |-> "null", items |-> <<>>]
Dict(topics) == [kind |-> "dict", topics |-> topics]
NoDict(kind) == [kind |-> kind, topics |-> <<>>]

Section(section_id, sec_id, section_name, all_questions) ==
    [section_id |-> section_id, sec_id |-> sec_id, section_name |-> section_name,
     sec_name |-> Absent, all_questions |-> all_questions]

Tree(kind, entries) == [data |-> [kind |-> kind, items |-> entries]]

\* ---- one question: its option slots and its answer
SlotHtml(i) == Str(<<"A", "B", "C", "D", "E">>[i])

EmptyForms == {Absent, Str(""), Str("<p></p>")}

AnswerEnValues ==
    {Absent, Null} \cup
    {Str(s) : s \in {"", "0", "1", "2", " 2 ", "2.0", "3", "5", "6", "-1", "abc",
                     "<b>x</b> <i>y</i>"}}

AnswerHiValues == {Absent, Str(""), Str("uttar")}

Slots(P, empty) == [i \in 1..NumOptionSlots |-> IF i \in P THEN SlotHtml(i) ELSE empty]

AnswerQuestion(lang, P, empty, ans_en, ans_hi) ==
    Question(Num(1),
             ByLang(lang, Str("Q1"), Absent),
             ByLang(lang, Slots(P, empty), Slots((1..NumOptionSlots) \ P, Absent)),
             [en |-> ans_en, hi |-> ans_hi],
             ByLang(lang, Str("abc"), Absent))

OneQuestionTree(q) ==
    Tree("list", <<Section(Str("1"), Absent, Str("Math"), Dict(<<List(<<q>>)>>))>>)

AnswerInputsFor(lang, hi_values) ==
    {[lang |-> lang, tree |-> OneQuestionTree(AnswerQuestion(lang, P, empty, ans_en, ans_hi))] :
        P \in SUBSET (1..NumOptionSlots), empty \in EmptyForms,
        ans_en \in AnswerEnValues, ans_hi \in hi_values}

AnswerInputs == AnswerInputsFor("en", {Absent}) \cup AnswerInputsFor("hi", AnswerHiValues)

\* ---- absent and null parts
AllSame(v) == [en |-> v, hi |-> v]
AllSlots(v) == [i \in 1..NumOptionSlots |-> v]

QBare == [qid |-> Absent, topic_id |-> Absent, question |-> AllSame(Absent),
          option |-> AllSame(AllSlots(Absent)), answer |-> AllSame(Absent),
          solution |-> AllSame(Absent)]

QNulls == [qid |-> Null, topic_id |-> Null, question |-> AllSame(Null),
           option |-> AllSame(AllSlots(Null)), answer |-> AllSame(Null),
           solution |-> AllSame(Null)]

QPlain(n) ==
    Question(Num(n), [en |-> Str("Q1"), hi |-> Str("prashn")],
             AllSame([i \in 1..NumOptionSlots |-> IF i <= 2 THEN SlotHtml(i) ELSE Absent]),
             AllSame(Str("2")), AllSame(Str(" x\n y ")))

TopicValues == {NullList} \cup {List(qs) : qs \in SeqsUpTo({QBare, QNulls}, MaxListLen)}

AllQuestionsValues ==
    {NoDict("absent"), NoDict("null")} \cup {Dict(ts) : ts \in SeqsUpTo(TopicValues, MaxTopics)}

PlainSection(n) ==
    Section(Str(IntText(n)), Absent, Str("Math"), Dict(<<List(<<QPlain(n)>>)>>))

StructureTrees ==
    {Tree("absent", <<>>), Tree("null", <<>>), Tree("list", <<>>)}
    \cup {Tree("list", <<Section(Str("1"), Absent, Absent, aq)>>) : aq \in AllQuestionsValues}
    \cup {Tree("list", <<PlainSection(2), Section(Str("1"), Absent, Absent, aq)>>) :
            aq \in AllQuestionsValues}

\* ---- section identifiers: the pairs (section_id, sec_id) of a section entry
IdForms ==
    {<<Absent, Absent>>, <<Absent, Num(0)>>, <<Null, Num(2)>>,
     <<Num(1), Absent>>, <<Str("1"), Absent>>, <<Str("2"), Absent>>}

IdSection(form, n) ==
    Section(form[1], form[2], IF form[1] = Str("2") THEN Str("Math") ELSE Absent,
            Dict(<<List(<<QPlain(n)>>)>>))

IdentityTrees ==
    {Tree("list", [n \in 1..Len(forms) |-> IdSection(forms[n], n)]) :
        forms \in SeqsUpTo(IdForms, MaxIdSections)}

SidTexts == {"", "0", "1", "2", "None"}

\* ---- images and languages
QRich(n) ==
    Question(Num(n),
             [en |-> Str("<p>A &amp; B<img src='/x.png'></p>"), hi |-> Str("prashn")],
             AllSame([i \in 1..NumOptionSlots |->
                        IF i = 1 THEN SlotHtml(1)
                        ELSE IF i = 2 THEN Str("<img src='//cdn.example.com/y.png'>")
                        ELSE IF i = 3 THEN Str("<img alt='z'>")
                        ELSE Absent]),
             AllSame(Str("1")),
             [en |-> Str("<img src='https://other.com/z.png'>S"), hi |-> Absent])

QEnglishOnly(n) ==
    Question(Num(n), [en |-> Str("Q1"), hi |-> Absent],
             [en |-> [i \in 1..NumOptionSlots |-> IF i <= 2 THEN SlotHtml(i) ELSE Absent],
              hi |-> AllSlots(Absent)],
             AllSame(Str("abc")), AllSame(Absent))

ExportQuestions(n) == {QPlain(n), QRich(n), QEnglishOnly(n)}

ExportSection(q, n) == Section(Str(IntText(n)), Absent, Absent, Dict(<<List(<<q>>)>>))

RECURSIVE ExportSectionLists(_)
ExportSectionLists(n) ==
    IF n = 0 THEN {<<>>}
    ELSE LET shorter == ExportSectionLists(n - 1)
         IN  shorter \cup {Append(s, ExportSection(q, n)) :
                             s \in {t \in shorter : Len(t) = n - 1}, q \in ExportQuestions(n)}

ExportTrees == {Tree("list", s) : s \in ExportSectionLists(MaxSections)}

Languages == {"en", "hi", "fr"}

FetchFailure == Payload(TRUE, Tree("absent", <<>>))

\* ---- the inputs of each route
FullInputs ==
    {[lang |-> i.lang, payload |-> Payload(FALSE, i.tree)] : i \in AnswerInputs}
    \cup {[lang |-> lang, payload |-> Payload(FALSE, t)] :
            lang \in {"en", "hi"}, t \in StructureTrees}
    \cup {[lang |-> lang, payload |-> Payload(FALSE, t)] : lang \in Languages, t \in ExportTrees}
    \cup {[lang |-> lang, payload |-> FetchFailure] : lang \in Languages}

SectionInputs ==
    {[sid |-> sid, lang |-> "en", payload |-> Payload(FALSE, t)] :
        sid \in SidTexts, t \in IdentityTrees}
    \cup {[sid |-> sid, lang |-> lang, payload |-> Payload(FALSE, t)] :
            sid \in {"1", "2", "9"}, lang \in Languages, t \in ExportTrees}
    \cup {[sid |-> "1", lang |-> lang, payload |-> FetchFailure] : lang \in Languages}

ViewInputs ==
    {[sid |-> sid, payload |-> Payload(FALSE, t)] : sid \in SidTexts, t \in IdentityTrees}
    \cup {[sid |-> "1", payload |-> Payload(FALSE, t)] : t \in StructureTrees}
    \cup {[sid |-> "1", payload |-> FetchFailure]}

SeriesInputs ==
    {[series |-> "listed", payload |-> Payload(FALSE, t)] : t \in IdentityTrees}
    \cup {[series |-> s, payload |-> FetchFailure] : s \in {"listed", "not_listed", "fetch_error"}}

Init ==
    /\ Idle
    /\ content = <<>>
    /\ rpc = "start"
    /\ attempts = <<>>
    /\ tree = NoValue
    /\ exc = <<>>

DownloadFull == pc = "idle" /\ \E i \in FullInputs : download_full(i.lang, i.payload)

DownloadSection == pc = "idle" /\ \E i \in SectionInputs : download_section(i.sid, i.lang, i.payload)

ViewSection == pc = "idle" /\ \E i \in ViewInputs : view_section(i.sid, i.payload)

SeriesPage == pc = "idle" /\ \E i \in SeriesInputs : series_page(i.series, i.payload)

Next ==
    \/ DownloadFull
    \/ DownloadSection
    \/ ViewSection
    \/ SeriesPage
    \/ EmitBlocks
    \/ FetchImage
    \/ SendFile

Spec == Init /\ [][Next]_vars

(***************************************************************************)
(* The properties.  What the payload holds, read off the tree itself: the  *)
(* question objects in traversal order, each with its section entry; a     *)
(* part that is absent or null holds none.                                 *)
(***************************************************************************)
RECURSIVE QuestionsOfTopics(_, _)
QuestionsOfTopics(section_entry, topics) ==
    IF topics = <<>> THEN <<>>
    ELSE [k \in 1..Len(Head(topics).items) |->
            [section |-> section_entry, q |-> Head(topics).items[k]]]
         \o QuestionsOfTopics(section_entry, Tail(topics))

RECURSIVE QuestionsOfSections(_)
QuestionsOfSections(entries) ==
    IF entries = <<>> THEN <<>>
    ELSE QuestionsOfTopics(Head(entries), Head(entries).all_questions.topics)
         \o QuestionsOfSections(Tail(entries))

QuestionsOf(t) == QuestionsOfSections(t.data.items)

\* The language process_data was called with.
LangOf(request) ==
    IF request.route \in {"download_full", "download_section"} THEN request.lang ELSE "en"

Normalized == normalized.called /\ ~normalized.raised

\* C1: every record produced by process_data whose answer_index is set has
\* 0 <= answer_index < len(options) of that record, and its answer_text is
\* the single letter at that position (a, b, c, d, e for 0 to 4).
C1_AnswerIndexInRange ==
    \A k \in 1..Len(normalized.cleaned) :
        LET r == normalized.cleaned[k]
        IN  r.answer_index.kind = "int" =>
                /\ 0 <= r.answer_index.i
                /\ r.answer_index.i < Len(r.options)
                /\ r.answer_text = <<<<"a", "b", "c", "d", "e">>[r.answer_index.i + 1]>>

\* C1's case: a Hindi record whose answer is the fifth of five options.
C1_Witness ==
    /\ req.lang = "hi"
    /\ \E k \in 1..Len(normalized.cleaned) :
          /\ normalized.cleaned[k].answer_index = Num(4)
          /\ Len(normalized.cleaned[k].options) = 5
          /\ normalized.cleaned[k].answer_text = <<"e">>

\* C7's reading of "answer_en is an integer in 1..n".
C7_IsChoice(ar, n) == PyInt(ar.s).ok /\ 1 <= PyInt(ar.s).value /\ PyInt(ar.s).value <= n

\* C7: for every language the answer is read from answer_en.  When that is
\* non-empty and not an integer in 1..len(options), answer_index is absent
\* and answer_text is the extracted text of answer_{lang} if that is present
\* and non-empty, otherwise of answer_en; when answer_en is absent or empty,
\* answer_index is absent and answer_text is empty.
C7_AnswerFallback ==
    Normalized =>
        LET qs == QuestionsOf(payload.tree)
        IN  /\ Len(normalized.cleaned) = Len(qs)
            /\ \A k \in 1..Len(qs) :
                  LET r == normalized.cleaned[k]
                      ar == qs[k].q.answer["en"]
                      al == qs[k].q.answer[LangOf(req)]
                  IN  /\ (ar.kind \in {"absent", "null"} \/ ar = Str("")) =>
                            r.answer_index = Null /\ r.answer_text = <<>>
                      /\ (ar.kind = "str" /\ ar.s # "" /\ ~C7_IsChoice(ar, Len(r.options))) =>
                            /\ r.answer_index = Null
                            /\ r.answer_text =
                                 parse_html_field(IF al.kind = "str" /\ al.s # ""
                                                  THEN al ELSE ar).text

\* C7's case: a Hindi export, answer_en "6" with fewer options, answer_hi present.
C7_Witness ==
    /\ Normalized
    /\ req.lang = "hi"
    /\ Len(normalized.cleaned) = 1
    /\ QuestionsOf(payload.tree)[1].q.answer["en"] = Str("6")
    /\ QuestionsOf(payload.tree)[1].q.answer["hi"] = Str("uttar")
    /\ normalized.cleaned[1].answer_index = Null
    /\ normalized.cleaned[1].answer_text = <<"u">>

\* C9: in both export operations, an empty record sequence after the filters
\* is answered 404, which is not the answer to a failed fetch (500), and
\* create_docx is never called with an empty sequence.
C9_NoContentIsDistinct ==
    (req.route \in {"download_full", "download_section"} /\ pc # "idle") =>
        /\ (Normalized /\ cleaned = <<>>) =>
              /\ response = Respond(404, "No questions found")
              /\ ~docx_arg.called
        /\ (payload.fails /\ req.lang \in {"en", "hi"}) => response.status = 500
        /\ response.status = 404 => ~payload.fails
        /\ docx_arg.called => docx_arg.entries # <<>>

\* C9's case: a section export in Hindi whose records are all filtered out.
C9_Witness ==
    /\ req.route = "download_section"
    /\ req.lang = "hi"
    /\ Normalized
    /\ normalized.cleaned # <<>>
    /\ cleaned = <<>>
    /\ response.status = 404

\* The text each recovery strategy parses, as C4 words it.
C4_StrategyText(k, c) ==
    LET region == IF HasBody(c) THEN BodyGroup(c) ELSE c
    IN  CASE k = 1 -> c
          [] k = 2 -> Unescape(Strip(region))
          [] OTHER -> ReplaceEscapedQuotes(Unescape(Strip(region)))

\* C4: recovery tries, in this order, the raw content, the entity-decoded
\* body region (the whole content without a body), and that text with every
\* backslash-quote replaced by a quote; it returns the tree of the first
\* that parses without trying the later ones, and when all three fail the
\* error that surfaces carries the failure of the first parse.
C4_OrderedRecovery ==
    /\ \A k \in 1..Len(attempts) : attempts[k] = k
    /\ Len(attempts) <= 3
    /\ rpc = "returned" =>
          /\ attempts # <<>>
          /\ JsonLoads(C4_StrategyText(Len(attempts), content)).ok
          /\ tree = JsonLoads(C4_StrategyText(Len(attempts), content)).value
          /\ \A j \in 1..(Len(attempts) - 1) : ~JsonLoads(C4_StrategyText(j, content)).ok
    /\ rpc = "raised" =>
          /\ attempts = <<1, 2, 3>>
          /\ \A j \in 1..3 : ~JsonLoads(C4_StrategyText(j, content)).ok
          /\ exc # <<>>
          /\ exc[Len(exc)] = Failure(1, content)
    /\ rpc \notin {"returned", "raised"} => tree = NoValue

\* C4's case: a body region with entity-encoded quotes, recovered by the second parse.
C4_Witness ==
    /\ rpc = "returned"
    /\ HasBody(content)
    /\ attempts = <<1, 2>>
    /\ tree = <<>>
    /\ \E k \in 1..Len(content) : content[k] = ENTITY

\* C2's key of a record: its section_id, the empty string if it has none.
C2_KeyOf(r) == IF r.section_id.kind \in {"absent", "null"} THEN Str("") ELSE r.section_id

RECURSIVE C2_RecordsOf(_, _)
C2_RecordsOf(records, key) ==
    IF records = <<>> THEN <<>>
    ELSE (IF C2_KeyOf(Head(records)) = key THEN <<Head(records)>> ELSE <<>>)
         \o C2_RecordsOf(Tail(records), key)

C2_FirstIndex(records, key) ==
    CHOOSE k \in 1..Len(records) :
        /\ C2_KeyOf(records[k]) = key
        /\ \A j \in 1..(k - 1) : C2_KeyOf(records[j]) # key

\* C2: group_by_section partitions the records: every record is in exactly
\* one group, the group whose key is its section_id (the empty string if it
\* has none); the groups are in order of first appearance of their key, and
\* each group holds its records in their order in the input.
C2_GroupsPartitionByKey ==
    (req.route \in {"view_section", "series_page"} /\ Normalized) =>
        LET records == normalized.cleaned
            groups == group_by_section(records)
        IN  /\ sections = groups
            /\ \A k \in 1..Len(records) :
                  \E g \in 1..Len(groups) : groups[g].key = C2_KeyOf(records[k])
            /\ \A g, h \in 1..Len(groups) : groups[g].key = groups[h].key => g = h
            /\ \A g \in 1..Len(groups) :
                  /\ groups[g].questions = C2_RecordsOf(records, groups[g].key)
                  /\ groups[g].questions # <<>>
            /\ \A g, h \in 1..Len(groups) :
                  g < h => C2_FirstIndex(records, groups[g].key)
                             < C2_FirstIndex(records, groups[h].key)

\* C3: whatever each image fetch brings (a network error, a timeout, a
\* non-success status, bytes that are not an image), create_docx raises
\* nothing, leaves out only the images that failed, and emits every record's
\* question, option, answer and solution blocks and its page break, in order.
C3_ImageFailuresNeverAbort ==
    docx_arg.called =>
        /\ response # Respond(500, "unhandled exception")
        /\ pc = "done" =>
              SelectSeq(doc, LAMBDA b : b.op # "image")
                = SelectSeq(Traversal(docx_arg.entries), LAMBDA b : b.op # "image")

\* C5: process_data never fails on a part that is absent or null: it returns
\* normally and emits exactly one record for every question object present.
C5_AbsentOrNullNeverFails ==
    normalized.called =>
        /\ ~normalized.raised
        /\ Len(normalized.cleaned) = Len(QuestionsOf(payload.tree))

\* C6's populated slots of a question: non-empty text or at least one image.
C6_PopulatedSlots(q, lang) ==
    LET populated(i) ==
            LET f == parse_html_field(DictGet(q.option[lang][i]))
            IN  f.text # <<>> \/ f.images # <<>>
    IN  SelectSeq(<<1, 2, 3, 4, 5>>, populated)

\* C6's labels of the rendered options: each keeps the letter of its slot.
RECURSIVE C6_SlotLabels(_, _, _)
C6_SlotLabels(qs, records, request) ==
    IF qs = <<>> THEN <<>>
    ELSE (IF Filtered(request, <<Head(records)>>) # <<>>
          THEN LET slots == C6_PopulatedSlots(Head(qs).q, request.lang)
               IN  [j \in 1..Len(slots) |-> <<"a", "b", "c", "d", "e">>[slots[j]]]
          ELSE <<>>)
         \o C6_SlotLabels(Tail(qs), Tail(records), request)

RECURSIVE C6_RenderedLabels(_)
C6_RenderedLabels(blocks) ==
    IF blocks = <<>> THEN <<>>
    ELSE (IF Head(blocks).tag = "OPT" THEN <<Head(blocks).label>> ELSE <<>>)
         \o C6_RenderedLabels(Tail(blocks))

\* C6: a record's options are at most 5, exactly the populated slots 1..5 in
\* slot order, and a gap does not shift labels: in the rendered document the
\* option taken from slot i carries the i-th letter of a..e.
C6_LabelsFollowSlots ==
    Normalized =>
        LET qs == QuestionsOf(payload.tree)
        IN  /\ \A k \in 1..Len(normalized.cleaned) :
                  LET slots == C6_PopulatedSlots(qs[k].q, LangOf(req))
                      options == normalized.cleaned[k].options
                  IN  /\ Len(options) <= 5
                      /\ Len(options) = Len(slots)
                      /\ \A j \in 1..Len(slots) :
                            options[j].text
                              = parse_html_field(qs[k].q.option[LangOf(req)][slots[j]]).text
            /\ (docx_arg.called /\ response = Respond(200, "docx")) =>
                  C6_RenderedLabels(doc) = C6_SlotLabels(qs, normalized.cleaned, req)

\* C8: every record carries a section_id, and a section entry without an
\* identifier gives its records the empty string, never an absent or null value.
C8_SectionIdNeverNull ==
    Normalized =>
        LET qs == QuestionsOf(payload.tree)
        IN  \A k \in 1..Len(normalized.cleaned) :
                /\ normalized.cleaned[k].section_id.kind \notin {"absent", "null"}
                /\ (qs[k].section.section_id.kind = "absent"
                    /\ qs[k].section.sec_id.kind = "absent") =>
                        normalized.cleaned[k].section_id = Str("")

\* C10: a section key that group_by_section returns for the English records
\* names the same section in the routes its links lead to: view_section
\* with the key's text finds that group, and download_section with the key's
\* text and language en selects exactly that group's records, in order.
C10_SectionIdentityConsistent ==
    Normalized =>
        LET groups == group_by_section(process_data(payload.tree, "en").cleaned)
        IN  \A g \in 1..Len(groups) :
                PyStr(groups[g].key) = req.sid =>
                    /\ req.route = "view_section" =>
                          response.status = 200 /\ page = <<groups[g]>>
                    /\ (req.route = "download_section" /\ req.lang = "en") =>
                          docx_arg.called /\ docx_arg.entries = groups[g].questions

====
